---- MODULE Spec2Model ----
(***************************************************************************)
(* A model of jira-report: the paginated search client with its version    *)
(* fallback (report_generator.py), the board resolver (get_board_id) and   *)
(* the sprint aggregation (generate_sprint_status.py).                     *)
(***************************************************************************)
EXTENDS Integers, Sequences, FiniteSets, TLC

(***************************************************************************)
(* Bounds of the model.                                                    *)
(***************************************************************************)
\* requests a single _search_once attempt may issue before the model stops following it
MaxRequests == 2
\* the largest value the server reports as startAt, maxResults or total
MaxMeta == 2
\* the largest page size the caller asks for
MaxPageSize == 2
\* the number of distinct issues the server can put in a page
NumIssues == 2
\* the longest result list a paging server holds
MaxListLen == 4
\* the longest issue sequence the aggregation is run on
MaxIssues == 2
\* the longest board listing the server answers with
MaxBoards == 3

(***************************************************************************)
(* Values.                                                                 *)
(***************************************************************************)
\* Python's None where an error object is expected (last_err: Optional[Exception])
NoError == [kind |-> "None", status |-> <<>>, login_hint |-> FALSE]

\* an optional JSON member: <<>> when the key is absent, <<x>> when it holds x
Absent == <<>>

\* dict.get(key, default)
Get(member, default) == IF member = Absent THEN default ELSE member[1]

\* the version hints a configuration can hold
Hints == {"auto", "3", "2"}

\* the final status codes a response can carry (allow_redirects follows 3xx)
Statuses == {200, 399, 400, 404}

\* Content-Type header values, as the list of their tokens; <<>> is a missing
\* header, which r.headers.get("Content-Type", "") reads as ""
ContentTypes ==
    { <<>>,
      <<"application/json">>,
      <<"application/json", ";charset=UTF-8">>,
      <<"Application/JSON">>,
      <<"text/html">>,
      <<"text/html", ";charset=UTF-8">> }

\* str.lower() on a token
Lower(tok) ==
    CASE tok = "Application/JSON" -> "application/json"
      [] tok = ";charset=UTF-8" -> ";charset=utf-8"
      [] tok = "AUTO" -> "auto"
      [] OTHER -> tok

\* `needle in text`, token by token
Contains(text, needle) == \E i \in 1..Len(text) : text[i] = needle

\* ct.lower()
LowerAll(text) == [i \in 1..Len(text) |-> Lower(text[i])]

IssueIds == 1..NumIssues

\* the "issues" member an arbitrary server can put in a response: absent, or
\* a list of issues
Pages == {Absent} \cup {<< <<>> >>} \cup {<< <<i>> >> : i \in IssueIds}

\* an optional reported number
MetaValues == {Absent} \cup {<<n>> : n \in 0..MaxMeta}

\* a response: final status, Content-Type, number of redirects followed
\* (len(r.history)), whether the body decodes as JSON, and the decoded members
Response(status, ct, history, decodes, issues, startAt, maxResults, total) ==
    [status |-> status, ct |-> ct, history |-> history, decodes |-> decodes,
     issues |-> issues, startAt |-> startAt, maxResults |-> maxResults,
     total |-> total]

\* what _search_once reads of r itself: r.status_code, r.headers, r.history
Envelope(resp) ==
    [status |-> resp.status, ct |-> resp.ct, history |-> resp.history]

NoResponse == [status |-> 0, ct |-> <<>>, history |-> 0]

VARIABLES
    api_version,   \* the version hint given to search_jira_auto_version
    page_size,     \* the page size given to it
    versions,      \* the list of versions it goes through
    vidx,          \* the position of its for loop in versions (1-based)
    last_err,      \* its last_err
    pc,            \* where the call is: "for", "get", "returned", "raised"
    v,             \* the version of the running _search_once
    all_issues,    \* _search_once's accumulator
    start_at,      \* _search_once's start offset
    r,             \* the last response received
    result,        \* what the call returned (pc = "returned")
    raised,        \* what the call raised (pc = "raised")
    requests,      \* the requests issued so far, oldest first
    served,        \* the issues the server sent to the running attempt, in order
    server_issues, \* the result list of a paging server
    prev_page,     \* the size of the last page a paging server sent
    fields_obj,    \* _get_story_points: the issue's field bag
    sp_field_key,  \* _get_story_points: the configured field key, if any
    sp_value,      \* _get_story_points: what it returned, Absent before the call
    issues,        \* sprint_status_report: the issues fetched
    story_points_field, \* sprint_status_report: the configured field key, if any
    idx,           \* the issues its aggregation loop has gone through
    by_status,     \* its mapping from status name to bucket
    by_category,   \* its mapping from status-category name to bucket
    by_type,       \* its mapping from issue-type name to bucket
    total_sp,      \* its total_sp
    report,        \* what it returned, Absent before it returns
    apc,           \* where it is: "loop", "done", or "idle"
    board_id,      \* get_board_id: the explicit board identifier, if any
    project_key_or_id, \* get_board_id: the project, if any
    boards,        \* get_board_id: the listing's values, Absent before the answer
    binfo,         \* what get_board_id returned, Absent before it returns
    board_err,     \* what get_board_id raised, "None" before it raises
    bpc,           \* where it is: "call", "returned", "raised", or "idle"
    entry,         \* main: the entry point run, "sprint" or "weekly"
    env_ok,        \* main: whether the three JIRA_* variables are set
    out_json,      \* main: outputs.get("json"), Absent when it is None
    out_html,      \* main: outputs.get("html"), Absent when it is None
    payload,       \* main: what it hands to write_json, Absent before it has it
    html,          \* main: whether the HTML document has been rendered
    files,         \* the output files written so far
    loud,          \* the call of search_jira_auto_version with debug on
    quiet,         \* the same call with debug off
    mpc            \* where main is: "set_vars", "board", "report", "search",
                   \* "write_json", "render", "write_html", "done" (exit 0),
                   \* "exit1", "exit2", "crashed" (uncaught exception), "idle"

searchVars ==
    <<api_version, page_size, versions, vidx, last_err, pc, v, all_issues,
      start_at, r, result, raised, requests, served>>

serverVars == <<server_issues, prev_page>>

spVars == <<fields_obj, sp_field_key, sp_value>>

aggVars ==
    <<issues, story_points_field, idx, by_status, by_category, by_type,
      total_sp, report, apc>>

boardVars == <<board_id, project_key_or_id, boards, binfo, board_err, bpc>>

mainVars ==
    <<entry, env_ok, out_json, out_html, payload, html, files, mpc>>

traceVars == <<loud, quiet>>

vars ==
    <<searchVars, serverVars, spVars, aggVars, boardVars, mainVars, traceVars>>

(***************************************************************************)
(* JSON values as Python reads them, and the story-points reader.          *)
(***************************************************************************)
\* None (a null member; dict.get gives the same for a member that is absent)
JNull == [t |-> "null"]

\* a number
JNum(n) == [t |-> "num", n |-> n]

\* a string, as the list of its characters
JStr(chars) == [t |-> "str", s |-> chars]

\* an object, as the function from its keys to its members
JObj(members) == [t |-> "obj", o |-> members]

\* d.get(k) on a dict
Member(d, k) == IF k \in DOMAIN d THEN d[k] ELSE JNull

\* the decimal digits float() reads
DigitValue(c) ==
    CASE c = "0" -> 0 [] c = "1" -> 1 [] c = "2" -> 2 [] c = "3" -> 3
      [] c = "4" -> 4 [] c = "5" -> 5 [] c = "6" -> 6 [] c = "7" -> 7
      [] c = "8" -> 8 [] c = "9" -> 9 [] OTHER -> -1

\* float(text) for a text of decimal digits: <<n>>, or Absent when float()
\* raises (an empty text, a character that is no digit)
RECURSIVE ParseDigits(_, _)
ParseDigits(chars, acc) ==
    IF chars = <<>> THEN <<acc>>
    ELSE IF DigitValue(Head(chars)) < 0 THEN Absent
    ELSE ParseDigits(Tail(chars), 10 * acc + DigitValue(Head(chars)))

\* float(x), then float(str(x)) when that raised: <<n>>, or Absent when both raise
ToFloat(x) ==
    CASE x.t = "num" -> <<x.n>>
      [] x.t = "str" -> IF x.s = <<>> THEN Absent ELSE ParseDigits(x.s, 0)
      [] OTHER -> Absent

\* the characters of "Custom field (Story Points)"
DefaultLabelChars ==
    << "C", "u", "s", "t", "o", "m", " ", "f", "i", "e", "l", "d", " ", "(",
       "S", "t", "o", "r", "y", " ", "P", "o", "i", "n", "t", "s", ")" >>

\* keys = [sp_field_key] if sp_field_key else []
\* keys += "Custom field (Story Points)"
\* (+= of a str to a list extends the list by the characters of the str)
StoryPointKeys(key) ==
    (IF key # Absent /\ key[1] # "" THEN <<key[1]>> ELSE <<>>)
        \o DefaultLabelChars

\* the for loop over keys, from position i on: the first key that is in
\* fields_obj with a value that is not None and converts; 0.0 when none is
RECURSIVE FirstStoryPoints(_, _, _)
FirstStoryPoints(fields, keys, i) ==
    IF i > Len(keys) THEN 0
    ELSE IF /\ keys[i] # ""
            /\ keys[i] \in DOMAIN fields
            /\ fields[keys[i]] # JNull
            /\ ToFloat(fields[keys[i]]) # Absent
         THEN ToFloat(fields[keys[i]])[1]
         ELSE FirstStoryPoints(fields, keys, i + 1)

\* _get_story_points(fields_obj, sp_field_key)
GetStoryPoints(fields, key) ==
    FirstStoryPoints(fields, StoryPointKeys(key), 1)

\* the field key a configuration can hold for the story points
StoryPointFieldKeys == {Absent, <<"">>, <<"customfield_10016">>}

\* the values an issue can hold under a story-points field
StoryPointValues ==
    { JNull, JNum(0), JNum(2), JStr(<<"1", "2">>), JStr(<<"n", "/", "a">>),
      JStr(<<>>), JObj(<<>>) }

\* the field bags the reader is applied to: the configured field, the field
\* named by the default label and a field that is no story-points field,
\* each there or not
FieldBags ==
    { [k \in present |->
          CASE k = "customfield_10016" -> explicit
            [] k = "Custom field (Story Points)" -> JNum(3)
            [] OTHER -> JStr(<<"9">>)] :
        explicit \in StoryPointValues,
        present \in SUBSET {"customfield_10016", "Custom field (Story Points)",
                            "summary"} }

\* no _get_story_points call is modelled
SpIdle ==
    /\ fields_obj = <<>>
    /\ sp_field_key = Absent
    /\ sp_value = Absent

StoryPointsStart ==
    /\ fields_obj \in FieldBags
    /\ sp_field_key \in StoryPointFieldKeys
    /\ sp_value = Absent

\* sp = _get_story_points(f, story_points_field)
CallGetStoryPoints ==
    /\ sp_value = Absent
    /\ sp_value' = <<GetStoryPoints(fields_obj, sp_field_key)>>
    /\ UNCHANGED <<fields_obj, sp_field_key, searchVars, serverVars, aggVars,
                   boardVars, mainVars,
                   traceVars>>

(***************************************************************************)
(* The aggregation of sprint_status_report.                                *)
(***************************************************************************)
\* bool(x)
Truthy(x) ==
    CASE x.t = "null" -> FALSE
      [] x.t = "num" -> x.n # 0
      [] x.t = "str" -> x.s # <<>>
      [] x.t = "obj" -> DOMAIN x.o # {}

\* (x or {}) for a member that is an object or None
OrEmptyDict(x) == IF Truthy(x) THEN x.o ELSE <<>>

\* (x or {}).get("name") or "Unknown"
NameOrUnknown(x) ==
    IF Truthy(Member(OrEmptyDict(x), "name"))
    THEN Member(OrEmptyDict(x), "name").s
    ELSE <<"U", "n", "k", "n", "o", "w", "n">>

\* f = it.get("fields", {})
FieldsOf(it) == IF "fields" \in DOMAIN it THEN it.fields ELSE <<>>

\* status = (f.get("status") or {}).get("name") or "Unknown"
StatusOf(it) == NameOrUnknown(Member(FieldsOf(it), "status"))

\* cat = ((f.get("status") or {}).get("statusCategory") or {}).get("name") or "Unknown"
CategoryOf(it) ==
    NameOrUnknown(
        Member(OrEmptyDict(Member(FieldsOf(it), "status")), "statusCategory"))

\* itype = (f.get("issuetype") or {}).get("name") or "Unknown"
TypeOf(it) == NameOrUnknown(Member(FieldsOf(it), "issuetype"))

\* Bump with the bucket started afresh each time (no .get of the old one)
BumpFresh(mapping, label, sp) ==
    [l \in DOMAIN mapping \cup {label} |->
        IF l = label THEN [count |-> 1, sp |-> sp] ELSE mapping[l]]

\* Bump with the story points left out of the bucket of a new label
BumpLateSp(mapping, label, sp) ==
    [l \in DOMAIN mapping \cup {label} |->
        IF l # label THEN mapping[l]
        ELSE IF label \in DOMAIN mapping
             THEN [count |-> mapping[l].count + 1, sp |-> mapping[l].sp + sp]
             ELSE [count |-> 1, sp |-> 0]]

\* m[label] = m.get(label, {"count": 0, "sp": 0.0})
\* m[label]["count"] += 1
\* m[label]["sp"] += sp
Bump(mapping, label, sp) ==
    [l \in DOMAIN mapping \cup {label} |->
        IF l # label THEN mapping[l]
        ELSE IF label \in DOMAIN mapping
             THEN [count |-> mapping[l].count + 1, sp |-> mapping[l].sp + sp]
             ELSE [count |-> 0 + 1, sp |-> 0 + sp]]

\* the names the samples use
ToDo == <<"T", "o", " ", "D", "o">>

Done == <<"D", "o", "n", "e">>

InReview == <<"I", "n", " ", "R", "e", "v", "i", "e", "w">>

Bug == <<"B", "u", "g">>

\* the status members of the sample issues: with and without a category,
\* null, and with an empty name
SampleStatuses ==
    { JNull,
      JObj([name |-> JStr(ToDo), statusCategory |-> JObj([name |-> JStr(ToDo)])]),
      JObj([name |-> JStr(Done), statusCategory |-> JObj([name |-> JStr(Done)])]),
      JObj([name |-> JStr(InReview), statusCategory |-> JObj([name |-> JStr(ToDo)])]),
      JObj([name |-> JStr(<<>>), statusCategory |-> JNull]) }

SampleTypes == {JNull, JObj([name |-> JStr(Bug)])}

\* the issues the aggregation is run on; the last one has no "fields"
SampleIssues ==
    { [fields |-> [status |-> st, issuetype |-> ty, customfield_10016 |-> p]] :
        st \in SampleStatuses, ty \in SampleTypes,
        p \in {JNull, JNum(2), JStr(<<"1">>)} }
    \cup {[key |-> JStr(<<"K">>)]}

\* no sprint_status_report call is modelled
AggIdle ==
    /\ issues = <<>>
    /\ story_points_field = Absent
    /\ idx = 0
    /\ by_status = <<>>
    /\ by_category = <<>>
    /\ by_type = <<>>
    /\ total_sp = 0
    /\ report = Absent
    /\ apc = "idle"

\* the sequences over S of length n
SeqsOfLen(S, n) == [1..n -> S]

\* by_status = {}; by_category = {}; by_type = {}; total_sp = 0.0
AggregateStart ==
    /\ issues \in UNION {SeqsOfLen(SampleIssues, n) : n \in 0..MaxIssues}
    /\ story_points_field \in {Absent, <<"customfield_10016">>}
    /\ idx = 0
    /\ by_status = <<>>
    /\ by_category = <<>>
    /\ by_type = <<>>
    /\ total_sp = 0
    /\ report = Absent
    /\ apc = "loop"

\* one turn of `for it in issues`
AggregateIssue ==
    /\ apc = "loop"
    /\ idx < Len(issues)
    /\ LET it == issues[idx + 1]
           sp == GetStoryPoints(FieldsOf(it), story_points_field)
       IN /\ by_status' = Bump(by_status, StatusOf(it), sp)
          /\ by_category' = Bump(by_category, CategoryOf(it), sp)
          /\ by_type' = Bump(by_type, TypeOf(it), sp)
          /\ total_sp' = total_sp + sp
    /\ idx' = idx + 1
    /\ UNCHANGED <<issues, story_points_field, report, apc>>
    /\ UNCHANGED <<searchVars, serverVars, spVars, boardVars, mainVars,
                   traceVars>>

\* meta = {...}; return {"meta": meta, "aggregates": {...}, "issues": issues}
BuildReport ==
    /\ apc = "loop"
    /\ idx = Len(issues)
    /\ report' =
           << [meta |-> [counts |-> [issues |-> Len(issues)],
                         story_points_total |-> total_sp],
               aggregates |-> [by_status |-> by_status,
                               by_category |-> by_category,
                               by_type |-> by_type],
               issues |-> issues] >>
    /\ apc' = "done"
    /\ UNCHANGED <<issues, story_points_field, idx, by_status, by_category,
                   by_type, total_sp>>
    /\ UNCHANGED <<searchVars, serverVars, spVars, boardVars, mainVars,
                   traceVars>>

NextAggregate == AggregateIssue \/ BuildReport

(***************************************************************************)
(* The board resolver. A name is the list of its characters' code points,  *)
(* which is what Python compares strings by.                               *)
(***************************************************************************)
\* s < t on str
RECURSIVE StrLess(_, _)
StrLess(s, t) ==
    IF t = <<>> THEN FALSE
    ELSE IF s = <<>> THEN TRUE
    ELSE IF Head(s) # Head(t) THEN Head(s) < Head(t)
    ELSE StrLess(Tail(s), Tail(t))

\* b.get("type") != "scrum", as False < True
NotScrum(b) == IF b.type # "scrum" THEN 1 ELSE 0

\* BoardKeyLess with the sort key reduced to the name
BoardKeyLessByName(a, b) == StrLess(a.name, b.name)

\* key(a) < key(b) for key = lambda b: (b.get("type") != "scrum", b.get("name", ""))
BoardKeyLess(a, b) ==
    \/ NotScrum(a) < NotScrum(b)
    \/ NotScrum(a) = NotScrum(b) /\ StrLess(a.name, b.name)

\* b put in its place in a sorted list, after the entries that are not greater
RECURSIVE Inserted(_, _)
Inserted(sorted, b) ==
    IF sorted = <<>> THEN <<b>>
    ELSE IF BoardKeyLess(b, Head(sorted)) THEN <<b>> \o sorted
    ELSE <<Head(sorted)>> \o Inserted(Tail(sorted), b)

\* sorted(boards, key=...): a stable sort
RECURSIVE SortedBoards(_)
SortedBoards(bs) ==
    IF bs = <<>> THEN <<>>
    ELSE Inserted(SortedBoards(SubSeq(bs, 1, Len(bs) - 1)), bs[Len(bs)])

\* b0 = boards_sorted[0]; return {"id": b0.get("id"), "name": b0.get("name")}
FirstBoard(bs) ==
    [id |-> SortedBoards(bs)[1].id, name |-> SortedBoards(bs)[1].name]

\* str(n) for 0 <= n < 100, as code points
DecimalName(n) ==
    IF n < 10 THEN <<48 + n>> ELSE <<48 + (n \div 10), 48 + (n % 10)>>

\* f"Board {board_id}"
DefaultBoardName(id) == <<66, 111, 97, 114, 100, 32>> \o DecimalName(id)

\* the names "A", "B" and "AB"
BoardNames == {<<65>>, <<66>>, <<65, 66>>}

BoardTypes == {"scrum", "kanban", "simple"}

\* the listings a server answers with: board i of the listing has id i
Listings ==
    UNION { { [i \in 1..n |-> [id |-> i, type |-> ty[i], name |-> nm[i]]] :
                ty \in [1..n -> BoardTypes], nm \in [1..n -> BoardNames] } :
            n \in 0..MaxBoards }

\* no get_board_id call is modelled
BoardIdle ==
    /\ board_id = Absent
    /\ project_key_or_id = Absent
    /\ boards = Absent
    /\ binfo = Absent
    /\ board_err = "None"
    /\ bpc = "idle"

BoardStart ==
    /\ board_id \in {Absent, <<7>>}
    /\ project_key_or_id \in {Absent, <<"">>, <<"BUILD">>}
    /\ boards = Absent
    /\ binfo = Absent
    /\ board_err = "None"
    /\ bpc = "call"

\* if board_id is not None: GET board/{board_id}, verify it
LoadBoard ==
    /\ bpc = "call"
    /\ board_id # Absent
    /\ \E status \in Statuses, id \in {Absent, <<7>>},
          name \in {Absent} \cup {<<n>> : n \in BoardNames} :
           IF status >= 400
           THEN /\ board_err' = "CannotLoadBoard"
                /\ bpc' = "raised"
                /\ UNCHANGED binfo
           ELSE /\ binfo' = << [id |-> Get(id, board_id[1]),
                                name |-> Get(name, DefaultBoardName(board_id[1]))] >>
                /\ bpc' = "returned"
                /\ UNCHANGED board_err
    /\ UNCHANGED <<board_id, project_key_or_id, boards>>
    /\ UNCHANGED <<searchVars, serverVars, spVars, aggVars, mainVars,
                   traceVars>>

\* if not project_key_or_id: raise ValueError(...)
RequireProject ==
    /\ bpc = "call"
    /\ board_id = Absent
    /\ project_key_or_id = Absent \/ project_key_or_id = <<"">>
    /\ board_err' = "ValueError"
    /\ bpc' = "raised"
    /\ UNCHANGED <<board_id, project_key_or_id, boards, binfo>>
    /\ UNCHANGED <<searchVars, serverVars, spVars, aggVars, mainVars,
                   traceVars>>

\* GET board?projectKeyOrId=...; boards = data.get("values", []); sort; first
ListBoards ==
    /\ bpc = "call"
    /\ board_id = Absent
    /\ ~(project_key_or_id = Absent \/ project_key_or_id = <<"">>)
    /\ \E status \in Statuses, values \in {Absent} \cup {<<l>> : l \in Listings} :
           IF status >= 400
           THEN /\ board_err' = "CannotListBoards"
                /\ bpc' = "raised"
                /\ UNCHANGED <<boards, binfo>>
           ELSE /\ boards' = <<Get(values, <<>>)>>
                /\ IF Get(values, <<>>) = <<>>
                   THEN /\ board_err' = "NoBoardsFound"
                        /\ bpc' = "raised"
                        /\ UNCHANGED binfo
                   ELSE /\ binfo' = <<FirstBoard(Get(values, <<>>))>>
                        /\ bpc' = "returned"
                        /\ UNCHANGED board_err
    /\ UNCHANGED <<board_id, project_key_or_id>>
    /\ UNCHANGED <<searchVars, serverVars, spVars, aggVars, mainVars,
                   traceVars>>

NextBoard == LoadBoard \/ RequireProject \/ ListBoards

(***************************************************************************)
(* The entry points: generate_sprint_status.main and                       *)
(* generate_weekly_updated.main. What the functions they call answer       *)
(* (a board, a report, a list of issues, or an exception) is chosen among  *)
(* the answers those functions can give.                                   *)
(***************************************************************************)
\* out_json = outputs.get("json"): None when the configuration has no path
JsonPaths == {Absent, <<"report.json">>}

\* out_html = outputs.get("html")
HtmlPaths == {Absent, <<"report.html">>}

Bob == <<"b", "o", "b">>

\* the issues a search hands to main: a well-formed one, one whose assignee
\* is a plain string, and one whose "fields" member is null
MainSampleIssues ==
    { [key |-> JStr(<<"K">>),
       fields |-> [summary |-> JStr(<<"s">>),
                   assignee |-> JObj([displayName |-> JStr(Bob)])]],
      [key |-> JStr(<<"K">>),
       fields |-> [summary |-> JStr(<<"s">>), assignee |-> JStr(Bob)]],
      [key |-> JStr(<<"K">>), fields |-> JNull] }

\* the issue lists main is run on
MainIssueLists == UNION {[1..n -> MainSampleIssues] : n \in 0..MaxIssues}

\* f = it.get("fields", {}) is None: the member is there and is null
FieldsIsNone(it) == "fields" \in DOMAIN it /\ it.fields = JNull

\* sprint_status_report's loop raises on f.get("status") when f is None
AggregationRaises(iss) == \E i \in DOMAIN iss : FieldsIsNone(iss[i])

\* to_html raises on f.get("summary", "") when f is None; safe() lets any
\* other shape of issuetype, status and assignee through
ToHtmlRaises(iss) == \E i \in DOMAIN iss : FieldsIsNone(iss[i])

\* to_html_sprint raises on f.get(...) when f is None, and on
\* (f.get("assignee") or {}).get("displayName") when the assignee is truthy
\* and no object
ToHtmlSprintRaises(iss) ==
    \E i \in DOMAIN iss :
        \/ FieldsIsNone(iss[i])
        \/ /\ Truthy(Member(FieldsOf(iss[i]), "assignee"))
           /\ Member(FieldsOf(iss[i]), "assignee").t # "obj"

\* what main reads of the report sprint_status_report returns
SprintPayload(iss) ==
    [meta |-> [counts |-> [issues |-> Len(iss)]], issues |-> iss]

\* {"count": len(issues), "jql": jql, "issues": issues}
WeeklyPayload(iss) == [count |-> Len(iss), issues |-> iss]

\* no entry point is run
MainIdle ==
    /\ entry = "none"
    /\ env_ok = TRUE
    /\ out_json = Absent
    /\ out_html = Absent
    /\ payload = Absent
    /\ html = FALSE
    /\ files = {}
    /\ mpc = "idle"

\* the process starts: nothing is written yet
MainStart ==
    /\ entry \in {"sprint", "weekly"}
    /\ env_ok \in BOOLEAN
    /\ out_json \in JsonPaths
    /\ out_html \in HtmlPaths
    /\ payload = Absent
    /\ html = FALSE
    /\ files = {}
    /\ mpc = "set_vars"

\* set_vars(...): sys.exit(2) when one of the JIRA_* variables is missing
SetVars ==
    /\ mpc = "set_vars"
    /\ mpc' = IF ~env_ok THEN "exit2"
              ELSE IF entry = "sprint" THEN "board" ELSE "search"
    /\ UNCHANGED <<entry, env_ok, out_json, out_html, payload, html, files>>
    /\ UNCHANGED <<searchVars, serverVars, spVars, aggVars, boardVars,
                   traceVars>>

\* generate_sprint_status.main: binfo = get_board_id(...), outside the try
MainGetBoard ==
    /\ mpc = "board"
    /\ \E raises \in BOOLEAN :
           mpc' = IF raises THEN "crashed" ELSE "report"
    /\ UNCHANGED <<entry, env_ok, out_json, out_html, payload, html, files>>
    /\ UNCHANGED <<searchVars, serverVars, spVars, aggVars, boardVars,
                   traceVars>>

\* try: report = sprint_status_report(...) except Exception: sys.exit(1)
MainSprintReport ==
    /\ mpc = "report"
    /\ \E raises \in BOOLEAN, iss \in MainIssueLists :
           IF raises \/ AggregationRaises(iss)
           THEN /\ mpc' = "exit1"
                /\ UNCHANGED payload
           ELSE /\ payload' = <<SprintPayload(iss)>>
                /\ mpc' = "write_json"
    /\ UNCHANGED <<entry, env_ok, out_json, out_html, html, files>>
    /\ UNCHANGED <<searchVars, serverVars, spVars, aggVars, boardVars,
                   traceVars>>

\* try: issues = search_jira_auto_version(...) except Exception: sys.exit(1)
MainSearch ==
    /\ mpc = "search"
    /\ \E raises \in BOOLEAN, iss \in MainIssueLists :
           IF raises
           THEN /\ mpc' = "exit1"
                /\ UNCHANGED payload
           ELSE /\ payload' = <<WeeklyPayload(iss)>>
                /\ mpc' = "write_json"
    /\ UNCHANGED <<entry, env_ok, out_json, out_html, html, files>>
    /\ UNCHANGED <<searchVars, serverVars, spVars, aggVars, boardVars,
                   traceVars>>

\* write_json(out_json, ...): open(path, "w") raises on a None path or when
\* the file cannot be opened; nothing catches it
MainWriteJson ==
    /\ mpc = "write_json"
    /\ \E opens \in BOOLEAN :
           IF out_json = Absent \/ ~opens
           THEN /\ mpc' = "crashed"
                /\ UNCHANGED files
           ELSE /\ files' = files \cup {out_json[1]}
                /\ mpc' = "render"
    /\ UNCHANGED <<entry, env_ok, out_json, out_html, payload, html>>
    /\ UNCHANGED <<searchVars, serverVars, spVars, aggVars, boardVars,
                   traceVars>>

\* html = to_html_sprint(report, base_url) / to_html(issues, base_url, title)
MainRender ==
    /\ mpc = "render"
    /\ IF \/ entry = "sprint" /\ ToHtmlSprintRaises(payload[1].issues)
          \/ entry = "weekly" /\ ToHtmlRaises(payload[1].issues)
       THEN /\ mpc' = "crashed"
            /\ UNCHANGED html
       ELSE /\ html' = TRUE
            /\ mpc' = "write_html"
    /\ UNCHANGED <<entry, env_ok, out_json, out_html, payload, files>>
    /\ UNCHANGED <<searchVars, serverVars, spVars, aggVars, boardVars,
                   traceVars>>

\* write_html(out_html, html), then the closing prints
MainWriteHtml ==
    /\ mpc = "write_html"
    /\ \E opens \in BOOLEAN :
           IF out_html = Absent \/ ~opens
           THEN /\ mpc' = "crashed"
                /\ UNCHANGED files
           ELSE /\ files' = files \cup {out_html[1]}
                /\ mpc' = "done"
    /\ UNCHANGED <<entry, env_ok, out_json, out_html, payload, html>>
    /\ UNCHANGED <<searchVars, serverVars, spVars, aggVars, boardVars,
                   traceVars>>

NextMain ==
    \/ SetVars
    \/ MainGetBoard
    \/ MainSprintReport
    \/ MainSearch
    \/ MainWriteJson
    \/ MainRender
    \/ MainWriteHtml

(***************************************************************************)
(* The paginated search client.                                            *)
(***************************************************************************)
\* VersionsFor with the fallback order reversed
VersionsForTwoFirst(hint) ==
    IF Lower(hint) # "auto" THEN <<hint>> ELSE <<"2", "3">>

\* VersionsFor with an explicit version tried a second time
VersionsForRetried(hint) ==
    IF Lower(hint) # "auto" THEN <<hint, hint>> ELSE <<"3", "2">>

\* versions = [api_version] if api_version.lower() != "auto" else ["3", "2"]
VersionsFor(hint) == IF Lower(hint) # "auto" THEN <<hint>> ELSE <<"3", "2">>

\* IsErrorStatus with the boundary status 400 let through
IsErrorStatusAbove400(resp) == resp.status > 400

\* r.status_code >= 400
IsErrorStatus(resp) == resp.status >= 400

\* IsJsonContentType without the lower()
IsJsonContentTypeCased(ct) == Contains(ct, "application/json")

\* "application/json" in ct.lower()
IsJsonContentType(ct) == Contains(LowerAll(ct), "application/json")

\* RuntimeError(f"HTTP {r.status_code} from {url}..."): the message names the status
HttpError(resp) ==
    [kind |-> "HTTP", status |-> <<resp.status>>, login_hint |-> FALSE]

\* login_hint = "(Detected redirect chain ...)" if r.history else ""
LoginHint(resp) == resp.history > 0

\* RuntimeError(f"Expected JSON but got Content-Type=...{login_hint}...")
ContentTypeError(resp) ==
    [kind |-> "ContentType", status |-> Absent, login_hint |-> LoginHint(resp)]

\* RuntimeError(f"Failed to decode JSON at {r.url}: {e}...")
DecodeError(resp) ==
    [kind |-> "Decode", status |-> Absent, login_hint |-> FALSE]

\* RuntimeError("Unknown error (no versions tried)")
UnknownError == [kind |-> "Unknown", status |-> Absent, login_hint |-> FALSE]

\* the error a response makes _search_once raise, NoError when it raises none
ErrorOf(resp) ==
    IF IsErrorStatus(resp) THEN HttpError(resp)
    ELSE IF ~IsJsonContentType(resp.ct) THEN ContentTypeError(resp)
    ELSE IF ~resp.decodes THEN DecodeError(resp)
    ELSE NoError

\* issues = data.get("issues", [])
Issues(resp) == Get(resp.issues, <<>>)

\* all_issues.extend(issues)
Extended(acc, resp) == acc \o Issues(resp)

\* total = int(data.get("total", len(all_issues))), read after the extend
Total(acc, resp) == Get(resp.total, Len(Extended(acc, resp)))

\* start_at = int(data.get("startAt", start_at))
ReportedStartAt(sa, resp) == Get(resp.startAt, sa)

\* max_results = int(data.get("maxResults", page_size))
ReportedMaxResults(ps, resp) == Get(resp.maxResults, ps)

\* if start_at + max_results >= total or not issues: break
LastPage(acc, sa, ps, resp) ==
    \/ ReportedStartAt(sa, resp) + ReportedMaxResults(ps, resp) >= Total(acc, resp)
    \/ Issues(resp) = <<>>

\* start_at += max_results
NextStartAt(sa, ps, resp) ==
    ReportedStartAt(sa, resp) + ReportedMaxResults(ps, resp)

\* the accumulator a new _search_once starts with: all_issues = []
FreshIssues(acc) == <<>>

\* Caught keeping the first error instead of the last
CaughtFirst(prev, e) == IF prev # NoError THEN prev ELSE e

\* except Exception as e: last_err = e
Caught(prev, e) == e

\* what `raise last_err if last_err else RuntimeError(...)` raises
Propagated(err) == IF err # NoError THEN err ELSE UnknownError

\* the requests of the running attempt
AttemptRequests == {i \in DOMAIN requests : requests[i].attempt = vidx}

\* the log entry of one request and of what came back
Exchange(resp) ==
    [attempt |-> vidx, v |-> v, error |-> ErrorOf(resp).kind]

(***************************************************************************)
(* Two calls of search_jira_auto_version side by side, one with debug on   *)
(* (loud) and one with debug off (quiet), given the same hint, the same    *)
(* page size and, request after request, the same responses. A call is a   *)
(* record of its local variables, of the requests its running attempt has  *)
(* issued (asked) and of the lines it has printed (out).                   *)
(***************************************************************************)
\* a call that has just computed versions and set last_err = None
NewRun ==
    [vidx |-> 1, last_err |-> NoError, pc |-> "for", v |-> "",
     all_issues |-> <<>>, start_at |-> 0, result |-> <<>>,
     raised |-> NoError, asked |-> 0, out |-> <<>>]

\* if debug: print(...)
Printed(debug, out, lines) == IF debug THEN out \o lines ELSE out

\* for v in versions: if debug: print("[DEBUG] Trying ..."), and
\* _search_once(base_url, v, ...) is entered
Entered(run, vs, debug) ==
    IF run.pc = "for" /\ run.vidx <= Len(vs)
    THEN [run EXCEPT !.v = vs[run.vidx],
                     !.all_issues = FreshIssues(@),
                     !.start_at = 0,
                     !.asked = 0,
                     !.pc = "get",
                     !.out = Printed(debug, @, <<"Trying">>)]
    ELSE run

\* one turn of _search_once's while loop on the response resp, `last`
\* being the outcome of its break test: the request and status lines are
\* printed, then the response is an error, which goes to the caller's
\* except clause and is printed there, or a page, whose statistics are
\* printed before the break test
Turned(run, ps, resp, debug, last) ==
    IF run.pc # "get" THEN run
    ELSE IF ErrorOf(resp) # NoError
    THEN [run EXCEPT !.asked = @ + 1,
                     !.last_err = Caught(@, ErrorOf(resp)),
                     !.vidx = @ + 1,
                     !.pc = "for",
                     !.out = Printed(debug, @, <<"GET", "Status", "failed">>)]
    ELSE IF last
    THEN [run EXCEPT !.asked = @ + 1,
                     !.all_issues = Extended(@, resp),
                     !.start_at = ReportedStartAt(@, resp),
                     !.result = Extended(run.all_issues, resp),
                     !.pc = "returned",
                     !.out = Printed(debug, @, <<"GET", "Status", "Page">>)]
    ELSE [run EXCEPT !.asked = @ + 1,
                     !.all_issues = Extended(@, resp),
                     !.start_at = NextStartAt(@, ps, resp),
                     !.out = Printed(debug, @, <<"GET", "Status", "Page">>)]

\* Answered with the break moved under `if debug:`
AnsweredBreakUnderDebug(run, ps, resp, debug) ==
    Turned(run, ps, resp, debug,
           debug \/ LastPage(run.all_issues, run.start_at, ps, resp))

\* one turn of the while loop on the response resp
Answered(run, ps, resp, debug) ==
    Turned(run, ps, resp, debug,
           LastPage(run.all_issues, run.start_at, ps, resp))

\* the for loop is over: raise last_err if last_err else RuntimeError(...)
RaisedLast(run, vs) ==
    IF run.pc = "for" /\ run.vidx > Len(vs)
    THEN [run EXCEPT !.raised = Propagated(run.last_err), !.pc = "raised"]
    ELSE run

\* no pair of calls is modelled
TraceIdle ==
    /\ loud = [NewRun EXCEPT !.pc = "idle"]
    /\ quiet = [NewRun EXCEPT !.pc = "idle"]

Init ==
    /\ api_version \in Hints
    /\ page_size \in 1..MaxPageSize
    /\ versions = VersionsFor(api_version)
    /\ vidx = 1
    /\ last_err = NoError
    /\ pc = "for"
    /\ v = ""
    /\ all_issues = <<>>
    /\ start_at = 0
    /\ r = NoResponse
    /\ result = <<>>
    /\ raised = NoError
    /\ requests = <<>>
    /\ served = <<>>
    /\ server_issues = <<>>
    /\ prev_page = 0
    /\ SpIdle
    /\ AggIdle
    /\ BoardIdle
    /\ MainIdle
    /\ TraceIdle

\* for v in versions: ... _search_once(base_url, v, ...) is entered
ForVersion ==
    /\ pc = "for"
    /\ vidx <= Len(versions)
    /\ v' = versions[vidx]
    /\ all_issues' = FreshIssues(all_issues)
    /\ start_at' = 0
    /\ served' = <<>>
    /\ r' = NoResponse
    /\ pc' = "get"
    /\ UNCHANGED <<api_version, page_size, versions, vidx, last_err, result,
                   raised, requests, serverVars, spVars, aggVars, boardVars, mainVars,
                   traceVars>>

\* the for loop is over: raise last_err
RaiseLast ==
    /\ pc = "for"
    /\ vidx > Len(versions)
    /\ raised' = Propagated(last_err)
    /\ pc' = "raised"
    /\ UNCHANGED <<api_version, page_size, versions, vidx, last_err, v,
                   all_issues, start_at, r, result, requests, served,
                   serverVars, spVars, aggVars, boardVars, mainVars,
                   traceVars>>

\* one turn of _search_once's while loop on the response resp; a raise goes
\* to search_jira_auto_version's except clause (last_err = e, next version)
SearchOnceStep(resp) ==
    /\ pc = "get"
    /\ r' = Envelope(resp)
    /\ requests' = Append(requests, Exchange(resp))
    /\ served' = served \o Issues(resp)
    /\ IF ErrorOf(resp) # NoError
       THEN /\ last_err' = Caught(last_err, ErrorOf(resp))
            /\ vidx' = vidx + 1
            /\ pc' = "for"
            /\ UNCHANGED <<all_issues, start_at, result>>
       ELSE /\ all_issues' = Extended(all_issues, resp)
            /\ IF LastPage(all_issues, start_at, page_size, resp)
               THEN /\ start_at' = ReportedStartAt(start_at, resp)
                    /\ result' = Extended(all_issues, resp)
                    /\ pc' = "returned"
               ELSE /\ start_at' = NextStartAt(start_at, page_size, resp)
                    /\ pc' = "get"
                    /\ UNCHANGED result
            /\ UNCHANGED <<last_err, vidx>>
    /\ UNCHANGED <<api_version, page_size, versions, v, raised>>

\* the responses of a server that answers with an error status
ErrorStatusResponses ==
    { Response(s, ct, h, FALSE, Absent, Absent, Absent, Absent) :
        s \in {s \in Statuses : s >= 400},
        ct \in {<<"text/html">>, <<"application/json">>},
        h \in 0..1 }

\* the responses of a server that answers with something that is no JSON
\* document (a login page, a truncated body), under any Content-Type
NonJsonBodyResponses ==
    { Response(s, ct, h, FALSE, Absent, Absent, Absent, Absent) :
        s \in {s \in Statuses : s < 400}, ct \in ContentTypes, h \in 0..1 }

\* the responses of a server that answers with a JSON page whose members
\* are whatever it likes
PageResponses ==
    { Response(200, <<"application/json">>, 0, TRUE, p, sa, mr, t) :
        p \in Pages, sa \in MetaValues, mr \in MetaValues, t \in MetaValues }

\* session.get(...) is answered with an error status
GetErrorStatus ==
    \E resp \in ErrorStatusResponses :
        /\ Cardinality(AttemptRequests) < MaxRequests
        /\ SearchOnceStep(resp)
        /\ UNCHANGED <<serverVars, spVars, aggVars, boardVars, mainVars,
                   traceVars>>

\* session.get(...) is answered with a body that is no JSON document
GetNonJsonBody ==
    \E resp \in NonJsonBodyResponses :
        /\ Cardinality(AttemptRequests) < MaxRequests
        /\ SearchOnceStep(resp)
        /\ UNCHANGED <<serverVars, spVars, aggVars, boardVars, mainVars,
                   traceVars>>

\* session.get(...) is answered with a JSON page
GetPage ==
    \E resp \in PageResponses :
        /\ Cardinality(AttemptRequests) < MaxRequests
        /\ SearchOnceStep(resp)
        /\ UNCHANGED <<serverVars, spVars, aggVars, boardVars, mainVars,
                   traceVars>>

Next == ForVersion \/ RaiseLast \/ GetErrorStatus \/ GetNonJsonBody \/ GetPage

Spec == Init /\ [][Next]_vars

(***************************************************************************)
(* The search client against a paging server: the server holds a fixed     *)
(* ordered result list and answers the request (startAt, maxResults) with  *)
(* the issues from startAt on, at most maxResults of them and no more than *)
(* in its previous page, and reports the request's startAt, the list's     *)
(* length as total and, as maxResults, a limit between the page's length   *)
(* and the requested one.                                                  *)
(***************************************************************************)
PagedInit ==
    /\ api_version \in Hints
    /\ page_size \in 1..MaxPageSize
    /\ versions = VersionsFor(api_version)
    /\ vidx = 1
    /\ last_err = NoError
    /\ pc = "for"
    /\ v = ""
    /\ all_issues = <<>>
    /\ start_at = 0
    /\ r = NoResponse
    /\ result = <<>>
    /\ raised = NoError
    /\ requests = <<>>
    /\ served = <<>>
    /\ server_issues \in {[i \in 1..n |-> i] : n \in 0..MaxListLen}
    /\ prev_page = MaxPageSize
    /\ SpIdle
    /\ AggIdle
    /\ BoardIdle
    /\ MainIdle
    /\ TraceIdle

\* the issues left in the server's list from offset sa on
Remaining(sa) ==
    IF sa >= Len(server_issues) THEN 0 ELSE Len(server_issues) - sa

\* the page of n issues from offset sa, reported with the limit m
PagedResponse(sa, n, m) ==
    Response(200, <<"application/json">>, 0, TRUE,
             << SubSeq(server_issues, sa + 1, sa + n) >>,
             <<sa>>, <<m>>, <<Len(server_issues)>>)

\* session.get(...) is answered by the paging server
GetPagedPage ==
    \E n \in 0..MaxPageSize, m \in 1..MaxPageSize :
        /\ n <= page_size
        /\ n <= prev_page
        /\ n <= Remaining(start_at)
        /\ Remaining(start_at) > 0 => n >= 1
        /\ n <= m
        /\ m <= page_size
        /\ SearchOnceStep(PagedResponse(start_at, n, m))
        /\ prev_page' = n
        /\ UNCHANGED <<server_issues, spVars, aggVars, boardVars, mainVars,
                   traceVars>>

NextPaged == ForVersion \/ GetPagedPage

SpecPaged == PagedInit /\ [][NextPaged]_vars

(***************************************************************************)
(* The aggregation and the story-points reader on their own: no search is  *)
(* running.                                                                *)
(***************************************************************************)
SearchIdle ==
    /\ api_version = "auto"
    /\ page_size = 1
    /\ versions = <<>>
    /\ vidx = 1
    /\ last_err = NoError
    /\ pc = "idle"
    /\ v = ""
    /\ all_issues = <<>>
    /\ start_at = 0
    /\ r = NoResponse
    /\ result = <<>>
    /\ raised = NoError
    /\ requests = <<>>
    /\ served = <<>>
    /\ server_issues = <<>>
    /\ prev_page = 0

AggregateInit ==
    SearchIdle /\ SpIdle /\ BoardIdle /\ MainIdle /\ TraceIdle
    /\ AggregateStart

SpecAggregate == AggregateInit /\ [][NextAggregate]_vars

StoryPointsInit ==
    SearchIdle /\ AggIdle /\ BoardIdle /\ MainIdle /\ TraceIdle
    /\ StoryPointsStart

NextStoryPoints == CallGetStoryPoints

SpecStoryPoints == StoryPointsInit /\ [][NextStoryPoints]_vars

BoardInit ==
    SearchIdle /\ SpIdle /\ AggIdle /\ MainIdle /\ TraceIdle
    /\ BoardStart

SpecBoard == BoardInit /\ [][NextBoard]_vars

MainInit ==
    SearchIdle /\ SpIdle /\ AggIdle /\ BoardIdle /\ TraceIdle /\ MainStart

SpecMain == MainInit /\ [][NextMain]_vars

(***************************************************************************)
(* The two calls, stepped together: each response is given to both.        *)
(***************************************************************************)
TracedInit ==
    /\ api_version \in Hints
    /\ page_size \in 1..MaxPageSize
    /\ versions = VersionsFor(api_version)
    /\ vidx = 1
    /\ last_err = NoError
    /\ pc = "idle"
    /\ v = ""
    /\ all_issues = <<>>
    /\ start_at = 0
    /\ r = NoResponse
    /\ result = <<>>
    /\ raised = NoError
    /\ requests = <<>>
    /\ served = <<>>
    /\ server_issues = <<>>
    /\ prev_page = 0
    /\ SpIdle
    /\ AggIdle
    /\ BoardIdle
    /\ MainIdle
    /\ loud = NewRun
    /\ quiet = NewRun

\* both calls enter _search_once for their next version
TracedForVersion ==
    /\ loud.pc = "for"
    /\ loud.vidx <= Len(versions)
    /\ loud' = Entered(loud, versions, TRUE)
    /\ quiet' = Entered(quiet, versions, FALSE)
    /\ UNCHANGED <<searchVars, serverVars, spVars, aggVars, boardVars, mainVars>>

\* both calls are past their last version
TracedRaiseLast ==
    /\ loud.pc = "for"
    /\ loud.vidx > Len(versions)
    /\ loud' = RaisedLast(loud, versions)
    /\ quiet' = RaisedLast(quiet, versions)
    /\ UNCHANGED <<searchVars, serverVars, spVars, aggVars, boardVars, mainVars>>

\* both calls receive the response resp to their pending request
TracedStep(resp) ==
    /\ loud.pc = "get"
    /\ loud.asked < MaxRequests
    /\ loud' = Answered(loud, page_size, resp, TRUE)
    /\ quiet' = Answered(quiet, page_size, resp, FALSE)
    /\ UNCHANGED <<searchVars, serverVars, spVars, aggVars, boardVars, mainVars>>

\* the server answers with an error status
TracedGetErrorStatus ==
    \E resp \in ErrorStatusResponses :
        /\ IsErrorStatus(resp)
        /\ TracedStep(resp)

\* the server answers with a body that is no JSON document
TracedGetNonJsonBody ==
    \E resp \in NonJsonBodyResponses :
        /\ ~IsErrorStatus(resp)
        /\ TracedStep(resp)

\* the server answers with a JSON page
TracedGetPage ==
    \E resp \in PageResponses :
        /\ resp.decodes
        /\ TracedStep(resp)

NextTraced ==
    \/ TracedForVersion
    \/ TracedRaiseLast
    \/ TracedGetErrorStatus
    \/ TracedGetNonJsonBody
    \/ TracedGetPage

SpecTraced == TracedInit /\ [][NextTraced]_vars

(***************************************************************************)
(* Claims about the search client.                                         *)
(***************************************************************************)
\* the last exchange of the log
LastExchange == requests[Len(requests)]

\* the exchanges of attempt a
ExchangesOf(a) == {i \in DOMAIN requests : requests[i].attempt = a}

\* C1: against a paging server, what _search_once returns is the server's
\* full result list, in order, with no duplicate and no gap.
C1_PagedFetchComplete == pc = "returned" => result = server_issues

\* C2: the pagination loop ends for every server: no turn of the loop that
\* goes on leaves the loop where it was (the same request again, which the
\* same answer would repeat for ever).
C2_LoopEnds ==
    [][(pc = "get" /\ pc' = "get" /\ requests' # requests)
         => start_at' # start_at]_vars

\* C3: with the hint "auto", version "3" is requested first and version "2"
\* only after version "3" failed; a success of version "3" ends the call
\* with no request to version "2", and a success of version "2" returns
\* exactly the issues served to the version-2 attempt, with nothing raised.
C3_AutoTriesThreeThenTwo ==
    Lower(api_version) = "auto" =>
        /\ \A i \in DOMAIN requests :
               /\ requests[i].attempt = 1 => requests[i].v = "3"
               /\ requests[i].attempt = 2 => requests[i].v = "2"
               /\ requests[i].v = "2" =>
                      \E j \in 1..(i - 1) :
                          /\ requests[j].v = "3"
                          /\ requests[j].error # "None"
        /\ (pc = "returned" /\ v = "3") =>
               \A i \in DOMAIN requests : requests[i].v = "3"
        /\ (pc = "returned" /\ v = "2") =>
               /\ result = served
               /\ raised = NoError

\* C3's case: version "3" failed after collecting issues, version "2" succeeded
C3_Witness ==
    /\ api_version = "auto"
    /\ pc = "returned"
    /\ v = "2"
    /\ result # <<>>
    /\ Cardinality(ExchangesOf(1)) >= 2
    /\ Cardinality(ExchangesOf(2)) >= 2

\* C4: when every attempt failed, the call raises the error of the last
\* attempt made (the last version of the list), and returns nothing.
C4_RaisesLastError ==
    pc = "raised" =>
        /\ requests # <<>>
        /\ raised = last_err
        /\ raised.kind = LastExchange.error
        /\ LastExchange.v = versions[Len(versions)]
        /\ LastExchange.attempt = Len(versions)
        /\ raised.kind = "HTTP" => raised.status = <<r.status>>
        /\ raised.kind = "ContentType" => raised.login_hint = (r.history > 0)
        /\ result = <<>>
        /\ \A a \in 1..Len(versions) :
               \E i \in ExchangesOf(a) : requests[i].error # "None"

\* C4's case: "auto", both versions failed, with errors of different kinds
C4_Witness ==
    /\ api_version = "auto"
    /\ pc = "raised"
    /\ raised.kind = "Decode"
    /\ \E i \in ExchangesOf(1) : requests[i].error = "HTTP"
    /\ \E i \in ExchangesOf(2) : requests[i].error = "None"

\* C5: a response with status >= 400, on any page, ends the attempt with an
\* error that names the status; the attempt issues no further request and
\* the call does not return what the attempt had accumulated.
C5_ErrorStatusIsFatal ==
    /\ r.status >= 400 =>
           /\ LastExchange.error = "HTTP"
           /\ last_err.kind = "HTTP"
           /\ last_err.status = <<r.status>>
           /\ pc \in {"for", "raised"}
           /\ vidx = LastExchange.attempt + 1
           /\ result = <<>>
    /\ \A i \in DOMAIN requests :
           requests[i].error = "HTTP" =>
               \A j \in (i + 1)..Len(requests) :
                   requests[j].attempt # requests[i].attempt
    /\ pc = "returned" =>
           \A i \in ExchangesOf(vidx) : requests[i].error = "None"

\* C5's case: a 404 on the second page, after issues were accumulated
C5_Witness ==
    /\ r.status = 404
    /\ last_err.status = <<404>>
    /\ all_issues # <<>>
    /\ Cardinality(ExchangesOf(LastExchange.attempt)) >= 2

\* a Content-Type whose media type is application/json, in any letter case
HasJsonMediaType(ct) == Len(ct) > 0 /\ Lower(ct[1]) = "application/json"

\* C6: a response with status < 400 and a Content-Type that is not JSON is
\* fatal, its error carries the login hint exactly when redirects were
\* followed; a response with a JSON Content-Type never raises that error.
C6_NonJsonContentTypeIsFatal ==
    (r.status > 0 /\ r.status < 400) =>
        /\ ~HasJsonMediaType(r.ct) =>
               /\ LastExchange.error = "ContentType"
               /\ last_err.kind = "ContentType"
               /\ last_err.login_hint = (r.history > 0)
               /\ pc \in {"for", "raised"}
               /\ vidx = LastExchange.attempt + 1
        /\ HasJsonMediaType(r.ct) => LastExchange.error # "ContentType"

\* C6's case: a login page (text/html) reached through a redirect
C6_Witness ==
    /\ r.status = 200
    /\ r.ct = <<"text/html">>
    /\ r.history > 0
    /\ last_err.kind = "ContentType"
    /\ last_err.login_hint

(***************************************************************************)
(* Claims about the aggregation.                                           *)
(***************************************************************************)
\* the sum of f[x] over the x of S
RECURSIVE SumOver(_, _)
SumOver(S, f) ==
    IF S = {} THEN 0
    ELSE LET x == CHOOSE y \in S : TRUE
         IN f[x] + SumOver(S \ {x}, f)

\* the sum of the counts of a mapping's buckets
CountSum(mapping) ==
    SumOver(DOMAIN mapping, [l \in DOMAIN mapping |-> mapping[l].count])

\* the sum of the story points of a mapping's buckets
SpSum(mapping) ==
    SumOver(DOMAIN mapping, [l \in DOMAIN mapping |-> mapping[l].sp])

\* the issues gone through so far
Processed == 1..idx

\* the story points of issue i, as the aggregation reads them
SpOfIssue(i) == GetStoryPoints(FieldsOf(issues[i]), story_points_field)

\* C7: in each of the three groupings the bucket counts sum to the number of
\* issues gone through so far; the returned report counts len(issues),
\* which is that sum; an empty issue sequence gives three empty mappings
\* and a zero total.
C7_CountsSumToIssues ==
    /\ apc \in {"loop", "done"} =>
           /\ CountSum(by_status) = idx
           /\ CountSum(by_category) = idx
           /\ CountSum(by_type) = idx
           /\ \A l \in DOMAIN by_status :
                  by_status[l].count =
                      Cardinality({i \in Processed : StatusOf(issues[i]) = l})
    /\ report # Absent =>
           /\ report[1].meta.counts.issues = Len(issues)
           /\ CountSum(report[1].aggregates.by_status) = Len(issues)
           /\ CountSum(report[1].aggregates.by_category) = Len(issues)
           /\ CountSum(report[1].aggregates.by_type) = Len(issues)
           /\ issues = <<>> =>
                  /\ DOMAIN report[1].aggregates.by_status = {}
                  /\ DOMAIN report[1].aggregates.by_category = {}
                  /\ DOMAIN report[1].aggregates.by_type = {}
                  /\ report[1].meta.story_points_total = 0

\* C7's case: a report of two issues that fall in one status bucket and in
\* two type buckets
C7_Witness ==
    /\ report # Absent
    /\ Len(issues) = 2
    /\ Cardinality(DOMAIN report[1].aggregates.by_status) = 1
    /\ Cardinality(DOMAIN report[1].aggregates.by_type) = 2

\* the story points a grouping must hold under label l, labels[i] being the
\* label of issue i: those of the issues gone through that carry the label
SpUnder(labels, l) ==
    SumOver({i \in Processed : labels[i] = l},
            [i \in Processed |-> SpOfIssue(i)])

\* C8: in each of the three groupings the buckets' story points sum to the
\* total, and every issue's value is in exactly one bucket of each grouping:
\* each bucket holds the sum of the values of the issues under its label.
C8_StoryPointsSumToTotal ==
    /\ apc \in {"loop", "done"} =>
           /\ SpSum(by_status) = total_sp
           /\ SpSum(by_category) = total_sp
           /\ SpSum(by_type) = total_sp
           /\ total_sp = SumOver(Processed, [i \in Processed |-> SpOfIssue(i)])
           /\ \A l \in DOMAIN by_status :
                  by_status[l].sp = SpUnder([i \in Processed |-> StatusOf(issues[i])], l)
           /\ \A l \in DOMAIN by_category :
                  by_category[l].sp = SpUnder([i \in Processed |-> CategoryOf(issues[i])], l)
           /\ \A l \in DOMAIN by_type : by_type[l].sp = SpUnder([i \in Processed |-> TypeOf(issues[i])], l)
    /\ report # Absent =>
           /\ report[1].meta.story_points_total = total_sp
           /\ SpSum(report[1].aggregates.by_status) = total_sp
           /\ SpSum(report[1].aggregates.by_category) = total_sp
           /\ SpSum(report[1].aggregates.by_type) = total_sp

\* C8's case: a report of two issues with story points, in distinct status
\* buckets
C8_Witness ==
    /\ report # Absent
    /\ Len(issues) = 2
    /\ report[1].meta.story_points_total = 3
    /\ Cardinality(DOMAIN report[1].aggregates.by_status) = 2
    /\ \A l \in DOMAIN report[1].aggregates.by_status :
           report[1].aggregates.by_status[l].sp > 0

\* whether a field bag holds a usable number under key k
Usable(fields, k) ==
    /\ Member(fields, k) # JNull
    /\ ToFloat(Member(fields, k)) # Absent

\* C9: the value read is the one under the configured key when there is one
\* and the issue holds a number there, otherwise the one under the label
\* "Custom field (Story Points)", and zero when neither is there; no other
\* field is read.
C9_ReadsKeyThenDefaultLabel ==
    sp_value # Absent =>
        sp_value[1] =
            IF /\ sp_field_key # Absent
               /\ sp_field_key[1] # ""
               /\ Usable(fields_obj, sp_field_key[1])
            THEN ToFloat(Member(fields_obj, sp_field_key[1]))[1]
            ELSE IF Usable(fields_obj, "Custom field (Story Points)")
                 THEN ToFloat(Member(fields_obj, "Custom field (Story Points)"))[1]
                 ELSE 0

(***************************************************************************)
(* Claims about the board resolver.                                        *)
(***************************************************************************)
\* the boards of the listing that was answered
Listed == {boards[1][i] : i \in DOMAIN boards[1]}

\* the board of the listing that get_board_id returned
Chosen == CHOOSE b \in Listed : b.id = binfo[1].id

\* C10: with no explicit board identifier the board returned is one of the
\* listing: a scrum board whose name no scrum board's name precedes when
\* the listing has a scrum board, otherwise a board whose name no board's
\* name precedes; an empty listing raises.
C10_PrefersScrumThenName ==
    (board_id = Absent /\ boards # Absent) =>
        /\ boards[1] = <<>> =>
               /\ bpc = "raised"
               /\ board_err = "NoBoardsFound"
               /\ binfo = Absent
        /\ boards[1] # <<>> =>
               /\ bpc = "returned"
               /\ \E b \in Listed : b.id = binfo[1].id
               /\ binfo[1].name = Chosen.name
               /\ (\E b \in Listed : b.type = "scrum") =>
                      /\ Chosen.type = "scrum"
                      /\ \A b \in Listed :
                             b.type = "scrum" => ~StrLess(b.name, Chosen.name)
               /\ (\A b \in Listed : b.type # "scrum") =>
                      \A b \in Listed : ~StrLess(b.name, Chosen.name)

\* C10's case: "A" (kanban) listed before "B" (scrum): "B" is returned
C10_Witness ==
    /\ board_id = Absent
    /\ boards = << << [id |-> 1, type |-> "kanban", name |-> <<65>>],
                      [id |-> 2, type |-> "scrum", name |-> <<66>>] >> >>
    /\ bpc = "returned"
    /\ binfo = << [id |-> 2, name |-> <<66>>] >>

(***************************************************************************)
(* Claims about the entry points.                                          *)
(***************************************************************************)
\* the run is over
MainEnded == mpc \in {"done", "exit1", "exit2", "crashed"}

\* C11: nothing is partially written: no output file is written before the
\* report is assembled, a run that ends in a fatal error leaves no output
\* file written, and at the end of every run either both output files are
\* written or neither is.
C11_NothingPartiallyWritten ==
    /\ files # {} => payload # Absent
    /\ mpc \in {"exit1", "exit2", "crashed"} => files = {}
    /\ MainEnded => (files = {} \/ files = {"report.json", "report.html"})

(***************************************************************************)
(* Claims about retries.                                                   *)
(***************************************************************************)
\* the exchanges of the log that ended in a fatal error
Failures == {i \in DOMAIN requests : requests[i].error # "None"}

\* C12 as stated: once a request of the search ended in a fatal error, the
\* search issues no further request.
C12_NoRequestAfterFatalError == \A i \in Failures : i = Len(requests)

\* C12: a fatal error ends its version attempt: the attempt issues no
\* further request. With an explicit version hint that version alone is
\* attempted, the first error is the last request and is the error raised.
\* With the hint "auto" the only requests after a fatal error are those of
\* the one following attempt, version "2" after version "3" failed, and
\* nothing is requested after version "2" failed.
C12_ErrorEndsTheAttempt ==
    /\ \A i \in Failures : \A j \in (i + 1)..Len(requests) :
           requests[j].attempt = requests[i].attempt + 1
    /\ \A i \in DOMAIN requests : requests[i].attempt <= Len(versions)
    /\ Lower(api_version) # "auto" =>
           /\ \A i \in DOMAIN requests :
                  requests[i].attempt = 1 /\ requests[i].v = api_version
           /\ \A i \in Failures : i = Len(requests)
           /\ Failures # {} => (pc \in {"for", "raised"} /\ last_err.kind = LastExchange.error)
           /\ pc = "raised" => raised.kind = LastExchange.error
    /\ Lower(api_version) = "auto" =>
           /\ Cardinality(Failures) <= 2
           /\ \A i \in Failures :
                  /\ requests[i].v = "2" => i = Len(requests)
                  /\ \A j \in (i + 1)..Len(requests) : requests[j].v = "2"

\* C12's case: an explicit version, a fatal error on its second page, the
\* error raised with nothing requested after it
C12_Witness ==
    /\ api_version = "2"
    /\ pc = "raised"
    /\ Len(requests) = 2
    /\ Failures = {2}
    /\ raised.kind = "Decode"

(***************************************************************************)
(* Claims about the diagnostic tracing.                                    *)
(***************************************************************************)
\* what a call does and ends with: its position, its pending request (the
\* version and the start offset), what it has collected, how many requests
\* its attempt has issued, and what it returned or raised
ControlOf(run) ==
    [pc |-> run.pc, vidx |-> run.vidx, v |-> run.v,
     start_at |-> run.start_at, asked |-> run.asked,
     all_issues |-> run.all_issues, last_err |-> run.last_err,
     result |-> run.result, raised |-> run.raised]

\* C13: given the same responses, the call with debug on and the call with
\* debug off are at every step at the same place with the same request
\* pending (same version, same start offset), and they end alike: the same
\* issues returned or the same error raised. Only the printed lines differ.
C13_DebugDoesNotAlterControlFlow ==
    /\ ControlOf(loud) = ControlOf(quiet)
    /\ quiet.out = <<>>

\* C13's case: debug on printed the trace of a failed version "3" and of
\* two pages of version "2", debug off printed nothing, issues are returned
C13_Witness ==
    /\ loud.pc = "returned"
    /\ loud.v = "2"
    /\ loud.asked = 2
    /\ loud.result # <<>>
    /\ \E i \in DOMAIN loud.out : loud.out[i] = "failed"
    /\ \E i \in DOMAIN loud.out : loud.out[i] = "Page"
    /\ quiet.pc = "returned"
    /\ quiet.out = <<>>

====
